---- MODULE Spec2Model ----
(***************************************************************************)
(* FileExplorer of src/collector.rs: a lazy, recursive enumeration of the  *)
(* files below a list of base paths.  The explorer keeps two deques        *)
(* (walk_dirs, walk_files) and a failure log (failed_paths); next() pops a *)
(* pending file, or expands pending directories until a file shows up.     *)
(*                                                                         *)
(* A deque is a sequence whose back is its last element: push_back is      *)
(* Append, push_front is concatenation on the left, pop_back takes Last.   *)
(*                                                                         *)
(* The file system is the environment: paths are the numbers 1..MaxNodes,  *)
(* the parent of path p is p \div 2 (path 1 is the top), and the set       *)
(* fs_dirs, chosen in Init and never changed, says which paths are         *)
(* directories.  A path exists iff it is the top or its parent is a        *)
(* directory; an existing path that is not a directory is a file.          *)
(***************************************************************************)
EXTENDS Integers, Sequences, FiniteSets, TLC

\* Number of paths of the path universe 1..MaxNodes.
MaxNodes ==
  5

\* Longest base_paths vector handed to FileExplorer::new.
MaxBases ==
  2

\* Number of I/O calls awaited by next() that the environment lets fail
\* (the probes of new() fail for any subset of the base paths).
MaxFail ==
  1

\* The count of next() calls that returned None is kept up to this number.
MaxNones ==
  2

\* Number of next() calls the caller drops while they are suspended.
MaxCancel ==
  1

VARIABLES
  fs_dirs,       \* environment: the paths that are directories
  base_paths,    \* field base_paths
  exclusions,    \* field exclusions: the set of paths is_excluded holds for
  filter,        \* field filter: the set of paths the filter accepts
  walk_dirs,     \* field walk_dirs
  walk_files,    \* field walk_files
  failed_paths,  \* field failed_paths: sequence of <<path, error>>
  pc,            \* position of the task inside next(): idle, enter, open, iter
  next_dir,      \* local next_dir of next() (0 when there is none)
  entries,       \* directory entries the open iterator has not yielded yet
  depth,         \* nesting depth of self-calls of the running next()
  ret,           \* what the last completed next() returned: new, some, none
  emitted,       \* history: the paths next() returned, in order
  dropped,       \* history: indices of base paths whose probe failed in new()
  nones,         \* history: how many next() calls returned None (capped)
  io,            \* history: outcome of the last I/O call awaited by next()
  fails,         \* history: number of I/O calls of next() that failed so far
  hist           \* history: push stamps of the queued paths, directories opened

vars ==
  <<fs_dirs, base_paths, exclusions, filter, walk_dirs, walk_files,
    failed_paths, pc, next_dir, entries, depth, ret, emitted, dropped, io,
    nones, fails, hist>>

----------------------------------------------------------------------------
\* The environment: paths and the file tree.

Paths ==
  1 .. MaxNodes

Parent(p) ==
  p \div 2

RECURSIVE IsAncestor(_, _)
\* a is a proper ancestor of b in the path hierarchy
IsAncestor(a, b) ==
  IF b <= 1 THEN FALSE
  ELSE Parent(b) = a \/ IsAncestor(a, Parent(b))

Exists(dirs, p) ==
  p = 1 \/ Parent(p) \in dirs

\* A file tree: every directory exists.
Trees ==
  { d \in SUBSET Paths : \A p \in d : Exists(d, p) }

\* What read_dir yields for directory d, as a set (the order is the OS's).
Children(d) ==
  { p \in Paths : Parent(p) = d }

Last(s) ==
  s[Len(s)]

Front(s) ==
  SubSeq(s, 1, Len(s) - 1)

Range(s) ==
  { s[i] : i \in 1 .. Len(s) }

Count(s, x) ==
  Cardinality({ i \in 1 .. Len(s) : s[i] = x })

Seqs(S, n) ==
  UNION { [1 .. k -> S] : k \in 0 .. n }

----------------------------------------------------------------------------
\* Policy hooks (crate::exclusions, crate::filter).

is_excluded(p) ==
  p \in exclusions

accepts(p) ==
  p \in filter

----------------------------------------------------------------------------
\* FileExplorer::new

\* is_dir / async_is_dir on a path whose metadata call succeeded
is_dir(p) ==
  p \in fs_dirs

RECURSIVE NewFrom(_, _, _, _, _, _)
\* the loop of new(): base paths i.. of bps, bad = indices whose probe fails
NewFrom(tree, bps, bad, i, dirs, files) ==
  IF i > Len(bps) THEN [dirs |-> dirs, files |-> files]
  ELSE IF i \in bad THEN NewFrom(tree, bps, bad, i + 1, dirs, files)
  ELSE IF bps[i] \in tree
       THEN NewFrom(tree, bps, bad, i + 1, <<bps[i]>> \o dirs, files)
       ELSE NewFrom(tree, bps, bad, i + 1, dirs, <<bps[i]>> \o files)

\* Mutation of New: a failed probe is taken for "not a directory".
NewErrAsFile(tree, bps, bad) ==
  NewFrom(tree, bps, {}, 1, <<>>, <<>>)

New(tree, bps, bad) ==
  NewFrom(tree, bps, bad, 1, <<>>, <<>>)

\* indices of base paths that do not exist: their probe cannot succeed
MissingIdx(tree, bps) ==
  { i \in 1 .. Len(bps) : ~Exists(tree, bps[i]) }

RECURSIVE SumOver(_, _)
\* the sum of f[x] over the finite set S
SumOver(f, S) ==
  IF S = {} THEN 0
  ELSE LET x == CHOOSE y \in S : TRUE
       IN  f[x] + SumOver(f, S \ {x})

RECURSIVE Work(_, _)
\* the steps of next() a queued path still costs in the given tree: one to
\* return a file; for a directory one to pop it, one to open it, one per
\* entry, one to end the loop, and the work of the entries
Work(tree, p) ==
  IF p \notin tree THEN 1
  ELSE LET kids == { c \in Children(p) : Exists(tree, c) }
       IN  3 + SumOver([c \in kids |-> 1 + Work(tree, c)], kids)

RECURSIVE StampsFrom(_, _, _, _, _, _, _)
\* the pushes of the loop of new(), numbered in the order they are made: the
\* k-th push of new() puts stamp k where the path goes
StampsFrom(tree, bps, bad, i, k, dirs, files) ==
  IF i > Len(bps) THEN [dirs |-> dirs, files |-> files]
  ELSE IF i \in bad THEN StampsFrom(tree, bps, bad, i + 1, k, dirs, files)
  ELSE IF bps[i] \in tree
       THEN StampsFrom(tree, bps, bad, i + 1, k + 1, <<k>> \o dirs, files)
       ELSE StampsFrom(tree, bps, bad, i + 1, k + 1, dirs, <<k>> \o files)

\* history kept beside the explorer: the push stamp of every queued path
\* (dirs, files run parallel to walk_dirs, walk_files), the number of pushes
\* made so far, the directories popped by next() so far, the number of
\* next() calls that were dropped while suspended, and the work of each path
NewHist(tree, bps, bad) ==
  [dirs   |-> StampsFrom(tree, bps, bad, 1, 1, <<>>, <<>>).dirs,
   files  |-> StampsFrom(tree, bps, bad, 1, 1, <<>>, <<>>).files,
   clock  |-> Len(bps) - Cardinality(bad),
   opened |-> {},
   cancels |-> 0,
   work   |-> [p \in Paths |-> Work(tree, p)]]

InitWith(excl, filt) ==
  \E tree \in Trees, bps \in Seqs(Paths, MaxBases) :
    \E bad \in SUBSET (1 .. Len(bps)) :
      /\ MissingIdx(tree, bps) \subseteq bad
      /\ fs_dirs = tree
      /\ base_paths = bps
      /\ exclusions = excl
      /\ filter = filt
      /\ walk_dirs = New(tree, bps, bad).dirs
      /\ walk_files = New(tree, bps, bad).files
      /\ failed_paths = <<>>
      /\ pc = "idle"
      /\ next_dir = 0
      /\ entries = {}
      /\ depth = 0
      /\ ret = "new"
      /\ emitted = <<>>
      /\ dropped = bad
      /\ io = "none"
      /\ nones = 0
      /\ fails = 0
      /\ hist = NewHist(tree, bps, bad)

\* Exclusions {} and Filter {} of the tests: nothing excluded, all accepted.
Init ==
  InitWith({}, Paths)

----------------------------------------------------------------------------
\* FileExplorer::next

Entered ==
  pc \in {"idle", "enter"}

\* depth of the body about to run: 0 for a call by the user
EnterDepth ==
  IF pc = "idle" THEN 0 ELSE depth

\* Mutation of ReturnFile: the file at the back is returned but not removed.
ReturnFilePeek ==
  /\ Entered
  /\ walk_files # <<>>
  /\ emitted' = Append(emitted, Last(walk_files))
  /\ ret' = "some"
  /\ pc' = "idle"
  /\ depth' = EnterDepth
  /\ io' = "none"
  /\ UNCHANGED <<fs_dirs, base_paths, exclusions, filter, walk_dirs,
                 walk_files, failed_paths, next_dir, entries, dropped, fails,
                 nones, hist>>

\* if let Some(next_file) = self.walk_files.pop_back() { return Some(..) }
ReturnFile ==
  /\ Entered
  /\ walk_files # <<>>
  /\ walk_files' = Front(walk_files)
  /\ emitted' = Append(emitted, Last(walk_files))
  /\ ret' = "some"
  /\ pc' = "idle"
  /\ depth' = EnterDepth
  /\ io' = "none"
  /\ hist' = [hist EXCEPT !.files = Front(@)]
  /\ UNCHANGED <<fs_dirs, base_paths, exclusions, filter, walk_dirs,
                 failed_paths, next_dir, entries, dropped, fails,
                 nones>>

\* self.walk_dirs.pop_back()? on an empty deque: return None
ReturnNone ==
  /\ Entered
  /\ walk_files = <<>>
  /\ walk_dirs = <<>>
  /\ ret' = "none"
  /\ pc' = "idle"
  /\ depth' = EnterDepth
  /\ io' = "none"
  /\ nones' = IF nones < MaxNones THEN nones + 1 ELSE nones
  /\ UNCHANGED <<fs_dirs, base_paths, exclusions, filter, walk_dirs,
                 walk_files, failed_paths, next_dir, entries, emitted,
                 dropped, fails, hist>>

\* Mutation of PopDir: the directory is taken from the front of walk_dirs.
PopDirFront ==
  /\ Entered
  /\ walk_files = <<>>
  /\ walk_dirs # <<>>
  /\ next_dir' = Head(walk_dirs)
  /\ walk_dirs' = Tail(walk_dirs)
  /\ pc' = "open"
  /\ depth' = EnterDepth
  /\ io' = "none"
  /\ hist' = [hist EXCEPT !.dirs = Tail(@),
                          !.opened = @ \cup {Head(walk_dirs)}]
  /\ UNCHANGED <<fs_dirs, base_paths, exclusions, filter, walk_files,
                 failed_paths, entries, ret, emitted, dropped, fails,
                 nones>>

\* Mutation of PopDir: the directory at the back is read but not removed.
PopDirPeek ==
  /\ Entered
  /\ walk_files = <<>>
  /\ walk_dirs # <<>>
  /\ next_dir' = Last(walk_dirs)
  /\ pc' = "open"
  /\ depth' = EnterDepth
  /\ io' = "none"
  /\ hist' = [hist EXCEPT !.opened = @ \cup {Last(walk_dirs)}]
  /\ UNCHANGED <<fs_dirs, base_paths, exclusions, filter, walk_dirs,
                 walk_files, failed_paths, entries, ret, emitted, dropped,
                 fails, nones>>

\* Mutation of PopDir: a directory is popped although files are queued.
PopDirEager ==
  /\ Entered
  /\ walk_dirs # <<>>
  /\ next_dir' = Last(walk_dirs)
  /\ walk_dirs' = Front(walk_dirs)
  /\ pc' = "open"
  /\ depth' = EnterDepth
  /\ io' = "none"
  /\ hist' = [hist EXCEPT !.dirs = Front(@),
                          !.opened = @ \cup {Last(walk_dirs)}]
  /\ UNCHANGED <<fs_dirs, base_paths, exclusions, filter, walk_files,
                 failed_paths, entries, ret, emitted, dropped, fails,
                 nones>>

\* let next_dir = self.walk_dirs.pop_back()?; then read_dir is awaited
PopDir ==
  /\ Entered
  /\ walk_files = <<>>
  /\ walk_dirs # <<>>
  /\ next_dir' = Last(walk_dirs)
  /\ walk_dirs' = Front(walk_dirs)
  /\ pc' = "open"
  /\ depth' = EnterDepth
  /\ io' = "none"
  /\ hist' = [hist EXCEPT !.dirs = Front(@),
                          !.opened = @ \cup {Last(walk_dirs)}]
  /\ UNCHANGED <<fs_dirs, base_paths, exclusions, filter, walk_files,
                 failed_paths, entries, ret, emitted, dropped, fails,
                 nones>>

\* read_dir(&next_dir) returns Ok(entries)
OpenOk ==
  /\ pc = "open"
  /\ entries' = { p \in Children(next_dir) : Exists(fs_dirs, p) }
  /\ pc' = "iter"
  /\ io' = "read_dir_ok"
  /\ UNCHANGED <<fs_dirs, base_paths, exclusions, filter, walk_dirs,
                 walk_files, failed_paths, next_dir, depth, ret, emitted,
                 dropped, fails,
                 nones, hist>>

\* Mutation of OpenFail: the failure is not logged.
OpenFailSilent ==
  /\ pc = "open"
  /\ fails < MaxFail
  /\ next_dir' = 0
  /\ pc' = "enter"
  /\ depth' = depth + 1
  /\ io' = "read_dir_err"
  /\ fails' = fails + 1
  /\ UNCHANGED <<fs_dirs, base_paths, exclusions, filter, walk_dirs,
                 walk_files, failed_paths, entries, ret, emitted, dropped,
                 nones, hist>>

\* Mutation of OpenFail: the failure is logged and next() returns None.
OpenFailReturnNone ==
  /\ pc = "open"
  /\ fails < MaxFail
  /\ failed_paths' = Append(failed_paths, <<next_dir, "read_dir">>)
  /\ next_dir' = 0
  /\ pc' = "idle"
  /\ ret' = "none"
  /\ nones' = IF nones < MaxNones THEN nones + 1 ELSE nones
  /\ io' = "read_dir_err"
  /\ fails' = fails + 1
  /\ UNCHANGED <<fs_dirs, base_paths, exclusions, filter, walk_dirs,
                 walk_files, entries, depth, emitted, dropped, hist>>

\* read_dir(&next_dir) returns Err: log it and return self.next().await
OpenFail ==
  /\ pc = "open"
  /\ fails < MaxFail
  /\ failed_paths' = Append(failed_paths, <<next_dir, "read_dir">>)
  /\ next_dir' = 0
  /\ pc' = "enter"
  /\ depth' = depth + 1
  /\ fails' = fails + 1
  /\ io' = "read_dir_err"
  /\ UNCHANGED <<fs_dirs, base_paths, exclusions, filter, walk_dirs,
                 walk_files, entries, ret, emitted, dropped,
                 nones, hist>>

\* Mutation of EntryOk: the two branches of `if is_dir` are swapped.
EntryOkSwapped(e) ==
  /\ pc = "iter"
  /\ e \in entries
  /\ entries' = entries \ {e}
  /\ IF is_dir(e)
     THEN /\ walk_files' = Append(walk_files, e)
          /\ UNCHANGED walk_dirs
     ELSE /\ walk_dirs' = Append(walk_dirs, e)
          /\ UNCHANGED walk_files
  /\ io' = "metadata_ok"
  /\ hist' = IF is_dir(e)
             THEN [hist EXCEPT !.files = Append(@, hist.clock + 1),
                               !.clock = @ + 1]
             ELSE [hist EXCEPT !.dirs = Append(@, hist.clock + 1),
                               !.clock = @ + 1]
  /\ UNCHANGED <<fs_dirs, base_paths, exclusions, filter, failed_paths, pc,
                 next_dir, depth, ret, emitted, dropped, fails, nones>>

\* Mutation of EntryOk: an entry that was already queued or returned is
\* skipped.
EntryOkDedup(e) ==
  /\ pc = "iter"
  /\ e \in entries
  /\ entries' = entries \ {e}
  /\ io' = "metadata_ok"
  /\ IF e \in Range(walk_dirs) \cup Range(walk_files) \cup Range(emitted)
     THEN UNCHANGED <<walk_dirs, walk_files, hist>>
     ELSE /\ IF is_dir(e)
             THEN /\ walk_dirs' = Append(walk_dirs, e)
                  /\ UNCHANGED walk_files
             ELSE /\ walk_files' = Append(walk_files, e)
                  /\ UNCHANGED walk_dirs
          /\ hist' = IF is_dir(e)
                     THEN [hist EXCEPT !.dirs = Append(@, hist.clock + 1),
                                       !.clock = @ + 1]
                     ELSE [hist EXCEPT !.files = Append(@, hist.clock + 1),
                                       !.clock = @ + 1]
  /\ UNCHANGED <<fs_dirs, base_paths, exclusions, filter, failed_paths, pc,
                 next_dir, depth, ret, emitted, dropped, fails,
                 nones>>

\* Mutation of EntryOk: the entry is pushed to the front of its queue.
EntryOkFront(e) ==
  /\ pc = "iter"
  /\ e \in entries
  /\ entries' = entries \ {e}
  /\ IF is_dir(e)
     THEN /\ walk_dirs' = <<e>> \o walk_dirs
          /\ UNCHANGED walk_files
     ELSE /\ walk_files' = <<e>> \o walk_files
          /\ UNCHANGED walk_dirs
  /\ io' = "metadata_ok"
  /\ hist' = IF is_dir(e)
             THEN [hist EXCEPT !.dirs = <<hist.clock + 1>> \o @,
                               !.clock = @ + 1]
             ELSE [hist EXCEPT !.files = <<hist.clock + 1>> \o @,
                               !.clock = @ + 1]
  /\ UNCHANGED <<fs_dirs, base_paths, exclusions, filter, failed_paths, pc,
                 next_dir, depth, ret, emitted, dropped, fails,
                 nones>>

\* Mutation of EntryOk: the entry is pushed to both queues.
EntryOkBoth(e) ==
  /\ pc = "iter"
  /\ e \in entries
  /\ entries' = entries \ {e}
  /\ walk_dirs' = Append(walk_dirs, e)
  /\ walk_files' = Append(walk_files, e)
  /\ io' = "metadata_ok"
  /\ hist' = [hist EXCEPT !.dirs = Append(@, hist.clock + 1),
                          !.files = Append(@, hist.clock + 1),
                          !.clock = @ + 1]
  /\ UNCHANGED <<fs_dirs, base_paths, exclusions, filter, failed_paths, pc,
                 next_dir, depth, ret, emitted, dropped, fails,
                 nones>>

\* Mutation of EntryOk: a file entry is returned at once and the rest of the
\* directory is left unread.
EntryOkReturnEarly(e) ==
  /\ pc = "iter"
  /\ e \in entries
  /\ io' = "metadata_ok"
  /\ IF is_dir(e)
     THEN /\ entries' = entries \ {e}
          /\ walk_dirs' = Append(walk_dirs, e)
          /\ hist' = [hist EXCEPT !.dirs = Append(@, hist.clock + 1),
                                  !.clock = @ + 1]
          /\ UNCHANGED <<pc, next_dir, ret, emitted>>
     ELSE /\ entries' = {}
          /\ next_dir' = 0
          /\ pc' = "idle"
          /\ ret' = "some"
          /\ emitted' = Append(emitted, e)
          /\ UNCHANGED <<walk_dirs, hist>>
  /\ UNCHANGED <<fs_dirs, base_paths, exclusions, filter, walk_files,
                 failed_paths, depth, dropped, fails, nones>>

\* next_entry() yields Ok(Some(e)) and async_is_dir(e) returns Ok
EntryOk(e) ==
  /\ pc = "iter"
  /\ e \in entries
  /\ entries' = entries \ {e}
  /\ IF is_dir(e)
     THEN /\ walk_dirs' = Append(walk_dirs, e)
          /\ UNCHANGED walk_files
     ELSE /\ walk_files' = Append(walk_files, e)
          /\ UNCHANGED walk_dirs
  /\ io' = "metadata_ok"
  /\ hist' = IF is_dir(e)
             THEN [hist EXCEPT !.dirs = Append(@, hist.clock + 1),
                               !.clock = @ + 1]
             ELSE [hist EXCEPT !.files = Append(@, hist.clock + 1),
                               !.clock = @ + 1]
  /\ UNCHANGED <<fs_dirs, base_paths, exclusions, filter, failed_paths, pc,
                 next_dir, depth, ret, emitted, dropped, fails,
                 nones>>

\* Mutation of EntryProbeFail: the entry is logged and still queued as a file.
EntryProbeFailPush(e) ==
  /\ pc = "iter"
  /\ e \in entries
  /\ fails < MaxFail
  /\ entries' = entries \ {e}
  /\ failed_paths' = Append(failed_paths, <<e, "metadata">>)
  /\ walk_files' = Append(walk_files, e)
  /\ io' = "metadata_err"
  /\ fails' = fails + 1
  /\ hist' = [hist EXCEPT !.files = Append(@, hist.clock + 1),
                          !.clock = @ + 1]
  /\ UNCHANGED <<fs_dirs, base_paths, exclusions, filter, walk_dirs, pc,
                 next_dir, depth, ret, emitted, dropped, nones>>

\* Mutation of EntryProbeFail: the failure ends the loop over the entries.
EntryProbeFailBreak(e) ==
  /\ pc = "iter"
  /\ e \in entries
  /\ fails < MaxFail
  /\ entries' = {}
  /\ failed_paths' = Append(failed_paths, <<e, "metadata">>)
  /\ next_dir' = 0
  /\ pc' = "enter"
  /\ depth' = depth + 1
  /\ io' = "metadata_err"
  /\ fails' = fails + 1
  /\ UNCHANGED <<fs_dirs, base_paths, exclusions, filter, walk_dirs,
                 walk_files, ret, emitted, dropped, nones, hist>>

\* next_entry() yields Ok(Some(e)) and async_is_dir(e) returns Err
EntryProbeFail(e) ==
  /\ pc = "iter"
  /\ e \in entries
  /\ fails < MaxFail
  /\ entries' = entries \ {e}
  /\ failed_paths' = Append(failed_paths, <<e, "metadata">>)
  /\ fails' = fails + 1
  /\ io' = "metadata_err"
  /\ UNCHANGED <<fs_dirs, base_paths, exclusions, filter, walk_dirs,
                 walk_files, pc, next_dir, depth, ret, emitted, dropped,
                 nones, hist>>

\* Mutation of IterEnd: after the loop next() returns None instead of recursing.
IterEndReturnNone ==
  /\ pc = "iter"
  /\ entries = {}
  /\ next_dir' = 0
  /\ pc' = "idle"
  /\ ret' = "none"
  /\ nones' = IF nones < MaxNones THEN nones + 1 ELSE nones
  /\ io' = "next_entry_none"
  /\ UNCHANGED <<fs_dirs, base_paths, exclusions, filter, walk_dirs,
                 walk_files, failed_paths, entries, depth, emitted, dropped,
                 fails, hist>>

\* Mutation of IterEnd: after the loop the body is repeated without a
\* nested call.
IterEndLoop ==
  /\ pc = "iter"
  /\ entries = {}
  /\ next_dir' = 0
  /\ pc' = "enter"
  /\ depth' = depth
  /\ io' = "next_entry_none"
  /\ UNCHANGED <<fs_dirs, base_paths, exclusions, filter, walk_dirs,
                 walk_files, failed_paths, entries, ret, emitted, dropped,
                 fails, nones, hist>>

\* next_entry() yields Ok(None): the loop ends, then self.next().await
IterEnd ==
  /\ pc = "iter"
  /\ entries = {}
  /\ next_dir' = 0
  /\ pc' = "enter"
  /\ depth' = depth + 1
  /\ io' = "next_entry_none"
  /\ UNCHANGED <<fs_dirs, base_paths, exclusions, filter, walk_dirs,
                 walk_files, failed_paths, entries, ret, emitted, dropped,
                 fails,
                 nones, hist>>

\* next_entry() yields Err: `while let Ok(Some(..))` ends the loop the same way
IterErr ==
  /\ pc = "iter"
  /\ fails < MaxFail
  /\ entries' = {}
  /\ next_dir' = 0
  /\ pc' = "enter"
  /\ depth' = depth + 1
  /\ fails' = fails + 1
  /\ io' = "next_entry_err"
  /\ UNCHANGED <<fs_dirs, base_paths, exclusions, filter, walk_dirs,
                 walk_files, failed_paths, ret, emitted, dropped,
                 nones, hist>>

Next ==
  \/ ReturnFile
  \/ ReturnNone
  \/ PopDir
  \/ OpenOk
  \/ OpenFail
  \/ \E e \in Paths : EntryOk(e)
  \/ \E e \in Paths : EntryProbeFail(e)
  \/ IterEnd
  \/ IterErr

Spec ==
  Init /\ [][Next]_vars

\* The caller drops the future of next() while it is suspended in read_dir,
\* next_entry or async_is_dir: the locals next_dir and entries go with it.
Cancel ==
  /\ pc \in {"open", "iter"}
  /\ hist.cancels < MaxCancel
  /\ pc' = "idle"
  /\ next_dir' = 0
  /\ entries' = {}
  /\ depth' = 0
  /\ ret' = "cancelled"
  /\ io' = "cancelled"
  /\ hist' = [hist EXCEPT !.cancels = @ + 1]
  /\ UNCHANGED <<fs_dirs, base_paths, exclusions, filter, walk_dirs,
                 walk_files, failed_paths, emitted, dropped, nones, fails>>

NextCancel ==
  \/ Next
  \/ Cancel

\* The larger specifications are explored for at most two base paths.
InitTwoBases ==
  Init /\ Len(base_paths) <= 2

SpecCancel ==
  InitTwoBases /\ [][NextCancel]_vars

\* A run with the policy hooks set: one excluded path, one rejected path.
InitPolicy ==
  \E x \in Paths, y \in Paths : InitWith({x}, Paths \ {y})

SpecPolicy ==
  InitPolicy /\ [][Next]_vars

----------------------------------------------------------------------------
\* Vocabulary of the properties.

\* no two base paths are equal and none is an ancestor of another
NonOverlap(bps) ==
  \A i, j \in 1 .. Len(bps) :
    i # j => bps[i] # bps[j] /\ ~IsAncestor(bps[i], bps[j])

\* no I/O call has failed, neither a probe of new() nor a call of next()
NoIoFailure ==
  dropped = {} /\ fails = 0

\* F: the non-directory paths at or below a base path
FileSet ==
  { p \in Paths :
      /\ Exists(fs_dirs, p)
      /\ p \notin fs_dirs
      /\ \E i \in 1 .. Len(base_paths) :
           base_paths[i] = p \/ IsAncestor(base_paths[i], p) }

FailedSet ==
  { failed_paths[i][1] : i \in 1 .. Len(failed_paths) }

Queued ==
  Range(walk_dirs) \cup Range(walk_files)

\* the state new() returns, before the first call of next()
Constructed ==
  ret = "new" /\ pc = "idle"

----------------------------------------------------------------------------
\* C1: with no I/O failure, nothing excluded, every path accepted and base
\* paths that do not overlap, once next() has returned None every file at or
\* below a base path has been emitted exactly once and nothing else has.
C1_EmitsFileSetOnce ==
  (/\ ret = "none"
   /\ NoIoFailure
   /\ exclusions = {}
   /\ filter = Paths
   /\ NonOverlap(base_paths))
  => \A p \in Paths : Count(emitted, p) = IF p \in FileSet THEN 1 ELSE 0

\* a drained run over a file base path and a directory holding two files
C1_Witness ==
  /\ ret = "none"
  /\ NoIoFailure
  /\ NonOverlap(base_paths)
  /\ Len(base_paths) = 2
  /\ \E i \in 1 .. 2 : base_paths[i] \notin fs_dirs
  /\ Len(emitted) >= 3

\* C2: a path classified as a directory is never returned by next(): only
\* directories sit in walk_dirs or are being expanded, and no emitted path is
\* a directory.
C2_DirNeverEmitted ==
  /\ \A i \in 1 .. Len(emitted) : ~is_dir(emitted[i])
  /\ \A i \in 1 .. Len(walk_dirs) : is_dir(walk_dirs[i])
  /\ next_dir # 0 => is_dir(next_dir)

\* a file two levels below the only base path was emitted: a directory found
\* during expansion was itself expanded
C2_Witness ==
  /\ Len(base_paths) = 1
  /\ \E i \in 1 .. Len(emitted) : Parent(Parent(emitted[i])) = base_paths[1]

\* C3 as stated: whatever I/O calls fail, a path of failed_paths is never
\* among the emitted paths (both are histories, so this covers before and
\* after).
C3_FailedNeverEmitted ==
  FailedSet \cap Range(emitted) = {}

\* C3 amended: the same, for base paths that do not overlap.
C3_FailedNeverEmittedNoOverlap ==
  NonOverlap(base_paths) =>
    \A i \in 1 .. Len(failed_paths) : \A j \in 1 .. Len(emitted) :
      failed_paths[i][1] # emitted[j]

\* an entry's probe failed and a sibling of that entry was emitted
C3_Witness ==
  /\ NonOverlap(base_paths)
  /\ ret = "none"
  /\ \E i \in 1 .. Len(failed_paths) : \E j \in 1 .. Len(emitted) :
       /\ failed_paths[i][2] = "metadata"
       /\ Parent(failed_paths[i][1]) = Parent(emitted[j])

\* C4: the exclusions hook is consulted before a path is queued: an excluded
\* path is in neither queue and not in failed_paths, and no emitted path is
\* an excluded path or lies below one.
C4_ExcludedNeverQueued ==
  \A p \in Paths :
    is_excluded(p) =>
      /\ p \notin Queued
      /\ p \notin FailedSet
      /\ \A i \in 1 .. Len(emitted) :
           emitted[i] # p /\ ~IsAncestor(p, emitted[i])

\* C5: the filter hook is consulted before a path is returned: every path
\* next() has returned is one the filter accepts.
C5_EmittedAccepted ==
  \A i \in 1 .. Len(emitted) : accepts(emitted[i])

RECURSIVE KeptFrom(_, _, _)
\* base paths i.. of bps without the occurrences whose index is in bad
KeptFrom(bps, bad, i) ==
  IF i > Len(bps) THEN <<>>
  ELSE IF i \in bad THEN KeptFrom(bps, bad, i + 1)
  ELSE <<bps[i]>> \o KeptFrom(bps, bad, i + 1)

\* what new() builds, probing nothing that fails, from the input without the
\* base paths it dropped
QueuesWithoutDropped ==
  NewFrom(fs_dirs, KeptFrom(base_paths, dropped, 1), {}, 1, <<>>, <<>>)

\* C6 as stated: a base path whose probe fails in new() is in neither queue
\* after construction, is never in failed_paths, and the queues are those of
\* the input without it.
C6_DroppedBaseGone ==
  \A i \in dropped :
    /\ Constructed => base_paths[i] \notin Queued
    /\ base_paths[i] \notin FailedSet
    /\ Constructed =>
         /\ walk_dirs = QueuesWithoutDropped.dirs
         /\ walk_files = QueuesWithoutDropped.files

\* C6 amended: after construction failed_paths is empty and the queues are
\* those of the input without the dropped occurrences, so the path is queued
\* only through another occurrence whose probe succeeded; it enters
\* failed_paths later only when another base path, probed successfully, is a
\* directory that equals it or lies above it.
C6_DroppedBaseOnlyRediscovered ==
  \A i \in dropped :
    /\ Constructed =>
         /\ failed_paths = <<>>
         /\ walk_dirs = QueuesWithoutDropped.dirs
         /\ walk_files = QueuesWithoutDropped.files
         /\ base_paths[i] \in Queued =>
              \E j \in (1 .. Len(base_paths)) \ dropped :
                base_paths[j] = base_paths[i]
    /\ base_paths[i] \in FailedSet =>
         \E j \in (1 .. Len(base_paths)) \ dropped :
           /\ is_dir(base_paths[j])
           /\ \/ base_paths[j] = base_paths[i]
              \/ IsAncestor(base_paths[j], base_paths[i])

\* a base path that does not exist was dropped and the run over the other
\* base path was drained with files emitted and an empty failure log
C6_Witness ==
  /\ \E i \in dropped : ~Exists(fs_dirs, base_paths[i])
  /\ Len(base_paths) = 2
  /\ ret = "none"
  /\ Len(emitted) >= 2
  /\ failed_paths = <<>>

\* C7: a step in which read_dir fails appends exactly <<next_dir, error>> to
\* failed_paths, leaves both queues as they are (the directory is not queued
\* again) and goes on with the body of next(); and next() returns None only
\* with both queues empty.
C7_OpenFailLoggedOnce ==
  [][/\ io' = "read_dir_err" =>
          /\ pc = "open"
          /\ failed_paths' = Append(failed_paths, <<next_dir, "read_dir">>)
          /\ walk_dirs' = walk_dirs
          /\ walk_files' = walk_files
          /\ pc' = "enter"
          /\ ret' = ret
          /\ emitted' = emitted
     /\ (ret' = "none" /\ pc' = "idle") =>
          walk_dirs' = <<>> /\ walk_files' = <<>>]_vars

\* read_dir has just failed, the failure is logged, and the same call is
\* about to go on with another pending directory
C7_Witness ==
  /\ io = "read_dir_err"
  /\ pc = "enter"
  /\ walk_dirs # <<>>
  /\ failed_paths # <<>>
  /\ Last(failed_paths)[2] = "read_dir"

\* C8: a step in which next_entry fails abandons the rest of the directory,
\* keeps what was queued and appends one entry for the directory to
\* failed_paths.
C8_IterErrLogged ==
  [][io' = "next_entry_err" =>
       /\ walk_dirs' = walk_dirs
       /\ walk_files' = walk_files
       /\ entries' = {}
       /\ Len(failed_paths') = Len(failed_paths) + 1
       /\ SubSeq(failed_paths', 1, Len(failed_paths)) = failed_paths
       /\ Last(failed_paths')[1] = next_dir]_vars

\* C9: a step in which the probe of an entry e fails appends exactly
\* <<e, error>> to failed_paths, queues e nowhere, and stays in the loop with
\* the other entries still to be classified.
C9_ProbeFailLoggedOnce ==
  [][io' = "metadata_err" =>
       \E e \in entries :
         /\ failed_paths' = Append(failed_paths, <<e, "metadata">>)
         /\ walk_dirs' = walk_dirs
         /\ walk_files' = walk_files
         /\ entries' = entries \ {e}
         /\ pc = "iter"
         /\ pc' = "iter"
         /\ next_dir' = next_dir]_vars

\* the probe of an entry has just failed and entries of the same directory
\* are still to be classified
C9_Witness ==
  /\ io = "metadata_err"
  /\ pc = "iter"
  /\ entries # {}
  /\ failed_paths # <<>>
  /\ Last(failed_paths)[2] = "metadata"

\* C10: once a call of next() has returned None both queues are empty, and
\* every later step is a call that returns None and changes neither the
\* queues nor failed_paths (nor what was emitted).
C10_NoneForever ==
  /\ [](nones >= 1 => walk_dirs = <<>> /\ walk_files = <<>>)
  /\ [][nones >= 1 =>
          /\ ret' = "none"
          /\ pc' = "idle"
          /\ walk_dirs' = walk_dirs
          /\ walk_files' = walk_files
          /\ failed_paths' = failed_paths
          /\ emitted' = emitted]_vars

\* next() has returned None twice, after files were emitted and failures
\* were logged
C10_Witness ==
  /\ nones >= 2
  /\ emitted # <<>>
  /\ failed_paths # <<>>

----------------------------------------------------------------------------
\* Vocabulary of the order properties: push stamps.

Reverse(q) ==
  [i \in 1 .. Len(q) |-> q[Len(q) + 1 - i]]

\* the base paths new() kept, in input order, by kind
KeptBaseDirs ==
  SelectSeq(KeptFrom(base_paths, dropped, 1), LAMBDA p : is_dir(p))

KeptBaseFiles ==
  SelectSeq(KeptFrom(base_paths, dropped, 1), LAMBDA p : ~is_dir(p))

\* the number of pushes new() made: stamps 1..NumBase belong to base paths,
\* in input order; larger stamps belong to entries found by next()
NumBase ==
  Len(base_paths) - Cardinality(dropped)

IsBaseStamp(k) ==
  k <= NumBase

\* the stamps a step removes from a queue whose stamps go from old to new
PoppedStamps(old, new) ==
  Range(old) \ Range(new)

\* C11 as stated: new() leaves the base paths of each kind in its queue in
\* reverse input order (pushed to the front), and among the pending base
\* paths of a queue the one popped is the last of the input.
C11_FirstBaseLastPopped ==
  /\ [](Constructed =>
          /\ walk_dirs = Reverse(KeptBaseDirs)
          /\ walk_files = Reverse(KeptBaseFiles))
  /\ [][/\ \A k \in PoppedStamps(hist.dirs, hist'.dirs) :
             IsBaseStamp(k) =>
               \A j \in Range(hist.dirs) : IsBaseStamp(j) => j <= k
        /\ \A k \in PoppedStamps(hist.files, hist'.files) :
             IsBaseStamp(k) =>
               \A j \in Range(hist.files) : IsBaseStamp(j) => j <= k]_vars

\* C11 amended: new() leaves the base paths of each kind in its queue in
\* reverse input order (pushed to the front), and among the pending base
\* paths of a queue the one popped is the first of the input: base paths of
\* one kind are popped in input order.
C11_FirstBaseFirstPopped ==
  /\ [](Constructed =>
          /\ walk_dirs = Reverse(KeptBaseDirs)
          /\ walk_files = Reverse(KeptBaseFiles))
  /\ [][/\ \A k \in PoppedStamps(hist.dirs, hist'.dirs) :
             IsBaseStamp(k) =>
               \A j \in Range(hist.dirs) : IsBaseStamp(j) => k <= j
        /\ \A k \in PoppedStamps(hist.files, hist'.files) :
             IsBaseStamp(k) =>
               \A j \in Range(hist.files) : IsBaseStamp(j) => k <= j]_vars

\* two different directories were given; the first of the input is being
\* expanded and the second is still pending
C11_Witness ==
  /\ Len(base_paths) = 2
  /\ dropped = {}
  /\ base_paths[1] # base_paths[2]
  /\ next_dir = base_paths[1]
  /\ hist.opened = {base_paths[1]}
  /\ walk_dirs = <<base_paths[2]>>
  /\ hist.dirs = <<2>>

----------------------------------------------------------------------------
\* Vocabulary of the termination and cancellation properties.

RECURSIVE SumSeq(_, _)
\* the sum of f[x] over the elements x of the sequence s
SumSeq(f, s) ==
  IF s = <<>> THEN 0 ELSE f[Head(s)] + SumSeq(f, Tail(s))

\* the steps left before next() can only return None
Potential ==
  SumSeq(hist.work, walk_dirs) + SumSeq(hist.work, walk_files)
  + (CASE pc = "open" -> hist.work[next_dir] - 1
       [] pc = "iter" -> 1 + SumOver([c \in entries |-> 1 + hist.work[c]], entries)
       [] OTHER -> 0)

\* a path new() queued or an entry of a directory next() has popped
Discovered(q) ==
  \/ q \in Range(KeptFrom(base_paths, dropped, 1))
  \/ Parent(q) \in hist.opened

\* C12 as stated: after a call of next() was dropped at a suspension point,
\* between calls nothing of the dropped call is left, the queues hold only
\* discovered paths that were not emitted, failed_paths only ever grows at
\* its end, every later step before None uses up work that is left (so the
\* calls end with None, returned only with both queues empty), and what a
\* later call emits is no directory and was not emitted before.
C12_CancelLeavesWellFormed ==
  /\ []((hist.cancels >= 1 /\ pc = "idle") =>
          /\ next_dir = 0
          /\ entries = {}
          /\ \A q \in Queued : Discovered(q) /\ q \notin Range(emitted))
  /\ [][/\ Len(failed_paths') >= Len(failed_paths)
        /\ SubSeq(failed_paths', 1, Len(failed_paths)) = failed_paths
        /\ hist.cancels >= 1 =>
             /\ Potential' < Potential
                  \/ (ret' = "none" /\ walk_dirs = <<>> /\ walk_files = <<>>)
             /\ emitted' # emitted =>
                  /\ Len(emitted') = Len(emitted) + 1
                  /\ ~is_dir(Last(emitted'))
                  /\ Last(emitted') \notin Range(emitted)]_vars

\* C12 amended: the same, with "not emitted before" claimed only when the
\* base paths do not overlap.
C12_CancelLeavesWellFormedNoOverlap ==
  /\ []((hist.cancels >= 1 /\ pc = "idle") =>
          /\ next_dir = 0
          /\ entries = {}
          /\ \A q \in Queued :
               /\ Discovered(q)
               /\ NonOverlap(base_paths) => q \notin Range(emitted))
  /\ [][/\ Len(failed_paths') >= Len(failed_paths)
        /\ SubSeq(failed_paths', 1, Len(failed_paths)) = failed_paths
        /\ hist.cancels >= 1 =>
             /\ Potential' < Potential
                  \/ (ret' = "none" /\ walk_dirs = <<>> /\ walk_files = <<>>)
             /\ emitted' # emitted =>
                  /\ Len(emitted') = Len(emitted) + 1
                  /\ ~is_dir(Last(emitted'))
                  /\ NonOverlap(base_paths) =>
                       Last(emitted') \notin Range(emitted)]_vars

\* a call was dropped while it iterated over a directory, later calls
\* emitted files and logged a failure, and next() has returned None with a
\* file of the dropped directory never emitted
C12_Witness ==
  /\ hist.cancels >= 1
  /\ NonOverlap(base_paths)
  /\ ret = "none"
  /\ emitted # <<>>
  /\ failed_paths # <<>>
  /\ \E p \in FileSet :
       /\ p \notin Range(emitted)
       /\ p \notin FailedSet
       /\ Parent(p) \in hist.opened
       /\ Parent(p) \notin FailedSet

----------------------------------------------------------------------------
\* the number of base paths that are p or lie above p
Cover(p) ==
  Cardinality({ i \in 1 .. Len(base_paths) :
                  base_paths[i] = p \/ IsAncestor(base_paths[i], p) })

\* some base path is an ancestor directory of another base path
OverlappingRoots ==
  \E i, j \in 1 .. Len(base_paths) : IsAncestor(base_paths[i], base_paths[j])

\* C13: with a base path that is an ancestor directory of another base path
\* and no I/O failure, once next() has returned None every file below both
\* roots was emitted exactly twice, every file below one root only exactly
\* once, and nothing else was emitted.
C13_OverlapEmitsTwice ==
  (/\ ret = "none"
   /\ NoIoFailure
   /\ OverlappingRoots)
  => \A p \in Paths :
       Cover(p) <= 2 =>
         Count(emitted, p) = IF p \in fs_dirs \/ ~Exists(fs_dirs, p)
                             THEN 0 ELSE Cover(p)

\* a drained run over a directory and a directory inside it, with a file
\* below both emitted twice and a file below the outer one only emitted once
C13_Witness ==
  /\ ret = "none"
  /\ NoIoFailure
  /\ OverlappingRoots
  /\ \E p, q \in FileSet :
       /\ Cover(p) = 2 /\ Count(emitted, p) = 2
       /\ Cover(q) = 1 /\ Count(emitted, q) = 1

----------------------------------------------------------------------------
\* The caller keeps calling next() and the runtime keeps polling the call.
SpecLive ==
  InitTwoBases /\ [][Next]_vars /\ WF_vars(Next)

\* C14: every call of next() comes back, repeated calls reach a call that
\* returns None, every step other than returning None uses up work that is
\* left in the finite tree, and None is returned only with both queues empty.
C14_Terminates ==
  /\ [](pc # "idle" => <>(pc = "idle"))
  /\ <>(ret = "none")
  /\ [](ret = "none" => walk_dirs = <<>> /\ walk_files = <<>>)
  /\ [][\/ Potential' < Potential
        \/ (ret' = "none" /\ walk_dirs = <<>> /\ walk_files = <<>>)]_vars

\* next() has returned None after it expanded a directory inside a directory
\* and emitted a file
C14_Witness ==
  /\ ret = "none"
  /\ emitted # <<>>
  /\ \E d \in hist.opened : Parent(d) \in hist.opened

----------------------------------------------------------------------------
\* C15: a step that emits a path emits one path and ends the call; a
\* directory is popped only by a call that is not expanding another one and
\* finds walk_files empty; a call entered with walk_files non-empty returns
\* its back element and leaves walk_dirs and failed_paths alone; a call goes
\* on popping directories while walk_files is empty and walk_dirs is not,
\* and it ends only by returning a file or, with both queues empty, None.
C15_OnePathPerCall ==
  [][/\ emitted' # emitted =>
          /\ Len(emitted') = Len(emitted) + 1
          /\ SubSeq(emitted', 1, Len(emitted)) = emitted
          /\ pc' = "idle"
          /\ ret' = "some"
     /\ walk_dirs' # walk_dirs /\ Len(walk_dirs') <= Len(walk_dirs) =>
          /\ walk_files = <<>>
          /\ pc \in {"idle", "enter"}
          /\ next_dir = 0
          /\ walk_dirs' = Front(walk_dirs)
          /\ next_dir' = Last(walk_dirs)
     /\ pc = "idle" /\ walk_files # <<>> =>
          /\ emitted' = Append(emitted, Last(walk_files))
          /\ walk_files' = Front(walk_files)
          /\ walk_dirs' = walk_dirs
          /\ failed_paths' = failed_paths
          /\ pc' = "idle"
          /\ ret' = "some"
     /\ pc \in {"idle", "enter"} /\ walk_files = <<>> /\ walk_dirs # <<>> =>
          /\ pc' = "open"
          /\ walk_dirs' = Front(walk_dirs)
          /\ emitted' = emitted
     /\ pc' = "idle" =>
          \/ ret' = "some" /\ emitted' = Append(emitted, Last(walk_files))
          \/ ret' = "none" /\ emitted' = emitted
               /\ walk_dirs = <<>> /\ walk_files = <<>>]_vars

\* a call has expanded two directories before it found a file to return,
\* and another file and a directory are still queued
C15_Witness ==
  /\ pc = "idle"
  /\ ret = "some"
  /\ depth >= 2
  /\ walk_files # <<>>
  /\ walk_dirs # <<>>

----------------------------------------------------------------------------
\* C16 as stated: whatever a step pops from a queue is the most recently
\* pushed element pending in that queue.
C16_PopsMostRecent ==
  [][/\ \A k \in PoppedStamps(hist.dirs, hist'.dirs) :
          \A j \in Range(hist.dirs) : j <= k
     /\ \A k \in PoppedStamps(hist.files, hist'.files) :
          \A j \in Range(hist.files) : j <= k]_vars

\* C16 amended: a step changes a queue by removing its back element or by
\* appending a newly stamped element at its back; a popped element that was
\* discovered during traversal is the most recently pushed element pending
\* in its queue; a popped base path is popped when no discovered element is
\* pending in its queue and is the earliest pushed of the pending base paths.
C16_PopsBackDiscoveredMostRecent ==
  [][/\ hist'.dirs # hist.dirs =>
          \/ hist.dirs # <<>> /\ hist'.dirs = Front(hist.dirs)
                              /\ walk_dirs' = Front(walk_dirs)
          \/ hist'.dirs = Append(hist.dirs, hist.clock + 1)
               /\ Front(walk_dirs') = walk_dirs
     /\ hist'.files # hist.files =>
          \/ hist.files # <<>> /\ hist'.files = Front(hist.files)
                               /\ walk_files' = Front(walk_files)
          \/ hist'.files = Append(hist.files, hist.clock + 1)
               /\ Front(walk_files') = walk_files
     /\ \A k \in PoppedStamps(hist.dirs, hist'.dirs) :
          \A j \in Range(hist.dirs) :
            IF IsBaseStamp(k) THEN IsBaseStamp(j) /\ k <= j ELSE j <= k
     /\ \A k \in PoppedStamps(hist.files, hist'.files) :
          \A j \in Range(hist.files) :
            IF IsBaseStamp(k) THEN IsBaseStamp(j) /\ k <= j ELSE j <= k
     /\ \A j \in Range(hist.dirs) \cup Range(hist.files) : j <= hist.clock]_vars

\* a discovered file was returned while an earlier discovered file and a
\* base directory are still pending
C16_Witness ==
  /\ pc = "idle"
  /\ ret = "some"
  /\ Last(emitted) \notin Range(base_paths)
  /\ \E j \in Range(hist.files) : ~IsBaseStamp(j)
  /\ \E j \in Range(hist.dirs) : IsBaseStamp(j)

----------------------------------------------------------------------------
\* C17 as stated: new() puts every base path it could probe into one queue,
\* every entry that is read and probed is put into one queue, no path is in
\* both queues, what is returned or opened was taken off the back of its
\* queue, and the path being returned or expanded is in no queue.
C17_OneQueueAndRemoved ==
  /\ [](/\ Range(walk_dirs) \cap Range(walk_files) = {}
        /\ Constructed => Len(walk_dirs) + Len(walk_files) = NumBase
        /\ pc \in {"open", "iter"} => next_dir \notin Queued)
  /\ [][/\ io' = "metadata_ok" =>
             Len(walk_dirs') + Len(walk_files')
               = Len(walk_dirs) + Len(walk_files) + 1
        /\ emitted' # emitted =>
             /\ Last(emitted') = Last(walk_files)
             /\ walk_files' = Front(walk_files)
             /\ Last(emitted') \notin Range(walk_dirs') \cup Range(walk_files')
        /\ pc' = "open" =>
             /\ next_dir' = Last(walk_dirs)
             /\ walk_dirs' = Front(walk_dirs)
             /\ next_dir' \notin Range(walk_dirs') \cup Range(walk_files')]_vars

\* C17 amended: the same, with "is in no queue" claimed only when the base
\* paths do not overlap; otherwise only the occurrence that was popped is
\* gone.
C17_OneQueueAndRemovedNoOverlap ==
  /\ [](/\ Range(walk_dirs) \cap Range(walk_files) = {}
        /\ Constructed => Len(walk_dirs) + Len(walk_files) = NumBase
        /\ (NonOverlap(base_paths) /\ pc \in {"open", "iter"}) =>
             next_dir \notin Queued)
  /\ [][/\ io' = "metadata_ok" =>
             Len(walk_dirs') + Len(walk_files')
               = Len(walk_dirs) + Len(walk_files) + 1
        /\ emitted' # emitted =>
             /\ Last(emitted') = Last(walk_files)
             /\ walk_files' = Front(walk_files)
             /\ NonOverlap(base_paths) =>
                  Last(emitted') \notin Range(walk_dirs') \cup Range(walk_files')
        /\ pc' = "open" =>
             /\ next_dir' = Last(walk_dirs)
             /\ walk_dirs' = Front(walk_dirs)
             /\ NonOverlap(base_paths) =>
                  next_dir' \notin Range(walk_dirs') \cup Range(walk_files')]_vars

\* a discovered directory is being expanded while a directory and a file
\* discovered before are queued, the base paths not overlapping
C17_Witness ==
  /\ NonOverlap(base_paths)
  /\ pc = "iter"
  /\ next_dir \notin Range(base_paths)
  /\ walk_dirs # <<>>
  /\ walk_files # <<>>

----------------------------------------------------------------------------
\* the number of directories whose opening has failed
OpenFailures ==
  Cardinality({ i \in 1 .. Len(failed_paths) : failed_paths[i][2] = "read_dir" })

\* C18 as stated: the nesting depth of the self-calls of next() is at most
\* the number of directory-open failures met.
C18_DepthBoundedByOpenFailures ==
  depth <= OpenFailures

\* C18 amended: a call by the user runs at depth 0; the depth grows by one
\* with every self-call, made after each directory whose opening failed and
\* after each directory whose entries were read to the end, and by nothing
\* else; with base paths that do not overlap it is at most the number of
\* directories popped.
C18_DepthCountsHandledDirs ==
  /\ [](/\ pc = "enter" => depth >= 1
        /\ NonOverlap(base_paths) => depth <= Cardinality(hist.opened))
  /\ [][/\ pc = "idle" => depth' = 0
        /\ pc # "idle" =>
             depth' = depth + (IF pc' = "enter" THEN 1 ELSE 0)
        /\ pc' = "enter" =>
             /\ pc \in {"open", "iter"}
             /\ next_dir' = 0
             /\ io' \in {"read_dir_err", "next_entry_none", "next_entry_err"}]_vars

\* with no failed I/O call, one call of next() is two self-calls deep after it
\* read a directory that holds only a directory, and that directory, which
\* holds no file
C18_Witness ==
  /\ fails = 0
  /\ dropped = {}
  /\ failed_paths = <<>>
  /\ depth >= 2
  /\ emitted = <<>>
  /\ \E d \in hist.opened : Parent(d) \in hist.opened

----------------------------------------------------------------------------
\* C19: whenever a directory has been popped to be opened, the base paths
\* that are files have all been emitted, first and in input order, and no
\* base file is pending; and when a base directory is
\* popped, nothing discovered during traversal is pending in either queue:
\* what was found below the base directories popped before has been
\* returned or expanded.
C19_BaseFilesFirstThenPerBaseDir ==
  /\ [](pc = "open" =>
          /\ \A j \in Range(hist.files) : ~IsBaseStamp(j)
          /\ Len(emitted) >= Len(KeptBaseFiles)
          /\ SubSeq(emitted, 1, Len(KeptBaseFiles)) = KeptBaseFiles)
  /\ [][\A k \in PoppedStamps(hist.dirs, hist'.dirs) :
          /\ walk_files = <<>>
          /\ IsBaseStamp(k) =>
               \A j \in Range(hist.dirs) \cup Range(hist.files) :
                 IsBaseStamp(j)]_vars

\* of two base directories the second is being expanded, after a file and a
\* directory found in the first were returned and expanded
C19_Witness ==
  /\ Len(base_paths) = 2
  /\ NonOverlap(base_paths)
  /\ dropped = {}
  /\ pc = "iter"
  /\ next_dir = base_paths[2]
  /\ base_paths[1] \in hist.opened
  /\ \E d \in hist.opened : Parent(d) = base_paths[1]
  /\ \E f \in Range(emitted) : Parent(f) = base_paths[1]

----------------------------------------------------------------------------
\* the places a path that was read from a directory can be: a queue, the
\* emitted files, failed_paths, or the directories popped
Classified ==
  Queued \cup Range(emitted) \cup FailedSet \cup hist.opened

\* no iterator has ended with an error: every failure met by next() is logged
IteratorsReadToEnd ==
  fails = Len(failed_paths)

\* C20: between two calls of next() no directory is open; a directory that
\* is pending and was never popped has none of its entries classified (base
\* paths not overlapping); a directory that was popped and could be opened
\* has every entry its iterator yielded classified; and a step that returns
\* a path removes exactly that path from the back of walk_files and changes
\* neither walk_dirs nor failed_paths.
C20_ExpansionAtomic ==
  /\ [](pc = "idle" =>
          /\ next_dir = 0
          /\ entries = {}
          /\ NonOverlap(base_paths) =>
               \A d \in Range(walk_dirs) :
                 /\ d \notin hist.opened
                 /\ Children(d) \cap Classified = {}
          /\ IteratorsReadToEnd =>
               \A d \in hist.opened :
                 <<d, "read_dir">> \notin Range(failed_paths) =>
                   \A c \in Children(d) :
                     Exists(fs_dirs, c) => c \in Classified)
  /\ [][emitted' # emitted =>
          /\ walk_files = Append(walk_files', Last(emitted'))
          /\ emitted' = Append(emitted, Last(walk_files))
          /\ walk_dirs' = walk_dirs
          /\ failed_paths' = failed_paths]_vars

\* between two calls: a directory was popped and read to the end, one of its
\* files was just returned and one of its directories, which has entries, is
\* pending with none of them queued
C20_Witness ==
  /\ pc = "idle"
  /\ ret = "some"
  /\ NonOverlap(base_paths)
  /\ IteratorsReadToEnd
  /\ \E d \in hist.opened :
       /\ Parent(Last(emitted)) = d
       /\ \E c \in Range(walk_dirs) :
            /\ Parent(c) = d
            /\ \E g \in Children(c) : Exists(fs_dirs, g) /\ g \notin Classified

====
